---- MODULE Spec2Model ----
(***************************************************************************)
(* Model of scot/connectivity_statistics.py: the resampling estimators     *)
(* (surrogate, jackknife, bootstrap), the two difference tests and the     *)
(* false discovery rate correction.                                        *)
(*                                                                         *)
(* Three specifications share the variables:                               *)
(*   SpecFdr   significance_fdr on a p-value array                         *)
(*   SpecDiff  test_bootstrap_difference and test_rank_difference_a        *)
(*   SpecEst   the three estimators, one loop iteration per step           *)
(*                                                                         *)
(* Numbers: p-values and alpha are integers counting hundredths (3 is      *)
(* 0.03), so p <= alpha*j/m is decided exactly as p*m <= alpha*j.  Array   *)
(* indices are 1-based here (TLA+ sequences) except trial indices, which   *)
(* keep the 0-based values of range(t).  Division is Python 3 division.    *)
(***************************************************************************)
EXTENDS Integers, Sequences, FiniteSets, TLC

VARIABLES
    pc,             \* "start", "loop", "returned", "raised"
    fn,             \* the function called
    result,         \* its return value
    p, alpha, j,    \* significance_fdr: arguments and the ranks it computed
    prev,           \* significance_fdr: alpha and mask of the caller's previous call on p
    a, b,           \* the difference tests: the two ensembles
    measure_names, t, repeats, leaveout, num_samples,   \* estimators: arguments
    num_blocks, r, output, var, fits    \* estimators: locals, model handle, log of var.fit calls

vars == <<pc, fn, result, p, alpha, j, prev, a, b, measure_names, t, repeats,
          leaveout, num_samples, num_blocks, r, output, var, fits>>

fdrVars == <<p, alpha, j, prev>>
diffVars == <<a, b>>
estVars == <<measure_names, t, repeats, leaveout, num_samples, num_blocks, r, output, var, fits>>

(***************************************************************************)
(* Bounds                                                                  *)
(***************************************************************************)
MaxN == 3           \* longest enumerated p-value array
MaxRep == 2         \* most repetitions of an enumerated ensemble a or b
MaxTrials == 3      \* most trials of the data set given to jackknife_connectivity
MaxDraw == 2        \* most trials of the data set given to the two randomised estimators
MaxRepeats == 2     \* largest repeats argument

Max(S) == CHOOSE x \in S : \A y \in S : y <= x
Min2(x, y) == IF x <= y THEN x ELSE y
RECURSIVE Prod(_)
Prod(sh) == IF sh = <<>> THEN 1 ELSE Head(sh) * Prod(Tail(sh))

(***************************************************************************)
(* significance_fdr                                                        *)
(***************************************************************************)
NaN == -1
isnan(x) == x = NaN

\* the scenario of the specification: [0.01, 0.02, 0.03, 0.5, 0.7], alpha 0.05
ScenarioP == <<1, 2, 3, 50, 70>>
PVals == {1, 2, 3, 50, 70, NaN}
PArrays == UNION {[1..n -> PVals] : n \in 1..MaxN} \cup {ScenarioP}
\* 5, 10 and 50 lie in (0,1); -5, 0, 100 and 150 do not
Alphas == {-5, 0, 5, 10, 50, 100, 150}
AlphaValid(al) == 0 < al /\ al < 100

\* the order np.argsort sorts by: numbers ascending, NaN last
sort_le(x, y) == isnan(y) \/ (~isnan(x) /\ x <= y)

\* np.argsort(p, axis=None): the default sort is not stable, so every
\* permutation that sorts p is a possible outcome
argsort(q) ==
    {i \in [1..Len(q) -> 1..Len(q)] :
        /\ \A x, y \in 1..Len(q) : x # y => i[x] # i[y]
        /\ \A x \in 1..(Len(q) - 1) : sort_le(q[i[x]], q[i[x + 1]])}

\* m = i.size - np.sum(np.isnan(p))
count_m(q) == Len(q) - Cardinality({x \in 1..Len(q) : isnan(q[x])})

\* j = np.empty(p.shape, int); j.flat[i] = np.arange(1, i.size+1)
ranks(i) == [x \in 1..Len(i) |-> CHOOSE k \in 1..Len(i) : i[k] = x]

fdr_mask_nodiv(q, al, jj, m) == [x \in 1..Len(q) |-> ~isnan(q[x]) /\ q[x] <= al * jj[x]]
\* mask = p <= alpha*j/m   (a comparison with NaN is False; with m = 0 every p is NaN)
fdr_mask(q, al, jj, m) == [x \in 1..Len(q) |-> ~isnan(q[x]) /\ q[x] * m <= al * jj[x]]

fdr_reject_mask(jj, mask) == mask
fdr_reject_min(jj, mask) ==
    IF {x \in DOMAIN mask : mask[x]} = {}
    THEN mask
    ELSE LET k == CHOOSE v \in {jj[x] : x \in {y \in DOMAIN mask : mask[y]}} :
                      \A x \in DOMAIN mask : mask[x] => v <= jj[x]
         IN  [x \in DOMAIN jj |-> jj[x] <= k]
\* sum(mask) == 0: return mask; else k = np.max(j[mask]); s = j <= k
fdr_reject(jj, mask) ==
    IF {x \in DOMAIN mask : mask[x]} = {}
    THEN mask
    ELSE LET k == Max({jj[x] : x \in {y \in DOMAIN mask : mask[y]}})
         IN  [x \in DOMAIN jj |-> jj[x] <= k]

significance_fdr(q, al, jj) == fdr_reject(jj, fdr_mask(q, al, jj, count_m(q)))

NoArray == <<>>
\* the state of the VAR model handle before the call fits it
Unfitted == [trials |-> <<>>, phase |-> 0]
EstIdle ==
    /\ measure_names = [str |-> TRUE, names |-> <<>>]
    /\ t = 0 /\ repeats = 0 /\ leaveout = [n |-> 1, d |-> 1] /\ num_samples = 0
    /\ num_blocks = 0 /\ r = 0 /\ output = <<>> /\ var = Unfitted /\ fits = <<>>
DiffIdle == a = [trail |-> <<>>, rows |-> <<>>] /\ b = [trail |-> <<>>, rows |-> <<>>]
FdrIdle == p = <<>> /\ alpha = 0 /\ j = <<>> /\ prev = <<>>

InitFdr ==
    /\ pc = "start" /\ fn = "significance_fdr" /\ result = NoArray
    /\ p \in PArrays /\ alpha \in Alphas /\ j = <<>> /\ prev = <<>>
    /\ DiffIdle /\ EstIdle

\* significance_fdr(p, alpha), lines 239-256
SignificanceFdr ==
    /\ fn = "significance_fdr" /\ pc = "start"
    /\ \E i \in argsort(p) :
        /\ j' = ranks(i)
        /\ result' = significance_fdr(p, alpha, j')
    /\ pc' = "returned"
    /\ UNCHANGED <<fn, p, alpha, prev, diffVars, estVars>>

\* the caller applies the correction to the same p again at another alpha
SignificanceFdrAgain ==
    /\ fn = "significance_fdr" /\ pc = "returned"
    /\ \E al \in Alphas, i \in argsort(p) :
        /\ alpha' = al
        /\ j' = ranks(i)
        /\ result' = significance_fdr(p, al, j')
    /\ prev' = <<[alpha |-> alpha, s |-> result]>>
    /\ UNCHANGED <<pc, fn, p, diffVars, estVars>>

NextFdr == SignificanceFdr \/ SignificanceFdrAgain
SpecFdr == InitFdr /\ [][NextFdr]_vars

(***************************************************************************)
(* Properties of significance_fdr (checked under SpecFdr)                  *)
(***************************************************************************)
FdrReturned == fn = "significance_fdr" /\ pc = "returned"
Idx == DOMAIN p
Numbers == {x \in Idx : ~isnan(p[x])}
NumTrue(s) == Cardinality({x \in DOMAIN s : s[x]})
\* the entries that meet the step-up condition p <= alpha*rank/m at their own rank
Qualifying == {x \in Numbers : p[x] * Cardinality(Numbers) <= alpha * j[x]}

\* C2: for alpha in (0,1) the returned mask has the shape of p and is the
\* Benjamini-Hochberg step-up decision: ranks are 1-based in ascending order
\* with NaN after all numbers; if no entry has p <= alpha*rank/m the mask is
\* all false, otherwise it is true exactly on the entries whose rank is at
\* most the largest qualifying rank; NaN entries are never significant; for
\* [0.01, 0.02, 0.03, 0.5, 0.7] at alpha 0.05 exactly the three smallest are marked.
C2_BenjaminiHochberg ==
    (FdrReturned /\ AlphaValid(alpha)) =>
        /\ DOMAIN result = Idx
        /\ {j[x] : x \in Idx} = 1..Len(p)
        /\ \A x, y \in Numbers : p[x] < p[y] => j[x] < j[y]
        /\ \A x \in Idx : isnan(p[x]) <=> j[x] > Cardinality(Numbers)
        /\ Qualifying = {} => \A x \in Idx : ~result[x]
        /\ Qualifying # {} =>
               \A x \in Idx : result[x] <=> j[x] <= Max({j[y] : y \in Qualifying})
        /\ \A x \in Idx : isnan(p[x]) => ~result[x]
        /\ (p = ScenarioP /\ alpha = 5) => result = <<TRUE, TRUE, TRUE, FALSE, FALSE>>

C2_Witness ==
    /\ FdrReturned /\ AlphaValid(alpha)
    /\ \E x \in Idx : isnan(p[x])
    /\ \E x \in Idx : result[x] /\ x \notin Qualifying

\* C3: for a fixed p and alpha1 <= alpha2 in (0,1) the mask at alpha2 has at
\* least as many True entries as the mask at alpha1.
C3_MonotoneInAlpha ==
    (FdrReturned /\ prev # <<>> /\ AlphaValid(prev[1].alpha) /\ AlphaValid(alpha)) =>
        /\ prev[1].alpha <= alpha => NumTrue(prev[1].s) <= NumTrue(result)
        /\ alpha <= prev[1].alpha => NumTrue(result) <= NumTrue(prev[1].s)

C3_Witness ==
    /\ FdrReturned /\ prev # <<>>
    /\ AlphaValid(prev[1].alpha) /\ AlphaValid(alpha) /\ prev[1].alpha < alpha
    /\ 0 < NumTrue(prev[1].s) /\ NumTrue(prev[1].s) < NumTrue(result)

\* C4 as stated: the mask is all false whenever no p-value satisfies
\* p <= alpha*1/m.
C4_Original ==
    (FdrReturned /\ AlphaValid(alpha)
        /\ \A x \in Numbers : ~(p[x] * Cardinality(Numbers) <= alpha * 1)) =>
        \A x \in Idx : ~result[x]

\* C4 amended: the mask is all false whenever no p-value satisfies
\* p <= alpha*rank/m at its own rank, in particular whenever every p-value
\* is greater than alpha.
C4_AllFalse ==
    (FdrReturned /\ AlphaValid(alpha)) =>
        /\ Qualifying = {} => \A x \in Idx : ~result[x]
        /\ (\A x \in Numbers : p[x] > alpha) => \A x \in Idx : ~result[x]

C4_Witness ==
    /\ FdrReturned /\ AlphaValid(alpha)
    /\ Cardinality(Numbers) >= 2
    /\ \A x \in Numbers : p[x] > alpha
    /\ \A x \in Idx : ~result[x]

\* C10: the mask does not depend on how the sort orders equal p-values: every
\* permutation that sorts p yields the returned mask, entries with equal
\* p-values get the same decision, and if p[x] <= p[y] and y is significant
\* then x is significant.
C10_TieIndependent ==
    FdrReturned =>
        /\ \A i \in argsort(p) : significance_fdr(p, alpha, ranks(i)) = result
        /\ \A x, y \in Idx : p[x] = p[y] => result[x] = result[y]
        /\ \A x, y \in Numbers : (p[x] <= p[y] /\ result[y]) => result[x]

C10_Witness ==
    /\ FdrReturned
    /\ Cardinality(argsort(p)) > 1
    /\ \E x, y \in Numbers : x # y /\ p[x] = p[y] /\ result[x] /\ y \notin Qualifying
    /\ \E x \in Numbers : ~result[x]

(***************************************************************************)
(* The difference tests                                                    *)
(***************************************************************************)
\* An ensemble is its trailing shape and its rows, one per repetition, each
\* row holding the Prod(trail) values of the trailing coordinates in C order
\* (what reshape((shape[0], -1)) produces).
Shapes == {<<1>>, <<2>>, <<1, 2>>, <<3>>}
Vals == {0, 1}
Ensembles ==
    UNION {{[trail |-> sh, rows |-> rw] :
                rw \in UNION {[1..n -> [1..Prod(sh) -> Vals]] : n \in 1..MaxRep}} :
           sh \in Shapes}
\* the scenario of the specification, in tenths: a = [[0.1],[0.2],[0.3]], b = a + 10
ScenarioA == [trail |-> <<1>>, rows |-> <<(<<1>>), (<<2>>), (<<3>>)>>]
ScenarioB == [trail |-> <<1>>, rows |-> <<(<<101>>), (<<102>>), (<<103>>)>>]

size(x) == Prod(x.trail)

\* numpy broadcasting of two rows: sizes must agree unless one of them is 1
broadcastable(ka, kb) == ka = kb \/ ka = 1 \/ kb = 1
bcast(row, k) == IF Len(row) = 1 THEN row[1] ELSE row[k]

\* c = b[i[1], :] - a[i[0], :]
diff_c(x, y, i, k) == bcast(y.rows[i[2]], k) - bcast(x.rows[i[1]], k)

\* the loop of lines 184-189 over cartesian((arange(n), arange(n))), n = a.shape[0]
s1(x, y, k) ==
    LET n == Len(x.rows)
    IN  Cardinality({i \in (1..n) \X (1..n) : diff_c(x, y, i, k) >= 0})
s2(x, y, k) ==
    LET n == Len(x.rows)
    IN  Cardinality({i \in (1..n) \X (1..n) : diff_c(x, y, i, k) <= 0})

\* b[i[1], :] is an IndexError when b has fewer rows than a; the subtraction
\* is a ValueError when the rows do not broadcast; p.reshape(old_shape) is a
\* ValueError when the broadcast row is longer than a's
bootstrap_difference_raises(x, y) ==
    \/ Len(y.rows) < Len(x.rows)
    \/ ~broadcastable(size(x), size(y))
    \/ size(y) > size(x)

\* p = np.minimum(s1, s2) / (n*n); return p.reshape(old_shape)
test_bootstrap_difference(x, y) ==
    LET n == Len(x.rows)
    IN  [trail |-> x.trail,
         vals |-> [k \in 1..size(x) |->
                     [num |-> Min2(s1(x, y, k), s2(x, y, k)), den |-> n * n]]]

\* assert(b.shape[1:] == old_shape)
rank_difference_raises(x, y) == y.trail # x.trail

\* p[i] = sp.stats.ttest_ind(a[:,i], b[:,i], equal_var=False)[1]: the value is
\* kept as the two samples the test was given
test_rank_difference_a(x, y) ==
    [trail |-> x.trail,
     vals |-> [k \in 1..size(x) |->
                 [ttest_a |-> [i \in 1..Len(x.rows) |-> x.rows[i][k]],
                  ttest_b |-> [i \in 1..Len(y.rows) |-> y.rows[i][k]]]]]

InitDiff ==
    /\ pc = "start" /\ result = NoArray
    /\ fn \in {"test_bootstrap_difference", "test_rank_difference_a"}
    /\ a \in Ensembles \cup {ScenarioA}
    /\ b \in Ensembles \cup {ScenarioB}
    /\ FdrIdle /\ EstIdle

TestBootstrapDifference ==
    /\ fn = "test_bootstrap_difference" /\ pc = "start"
    /\ IF bootstrap_difference_raises(a, b)
       THEN pc' = "raised" /\ result' = result
       ELSE pc' = "returned" /\ result' = test_bootstrap_difference(a, b)
    /\ UNCHANGED <<fn, fdrVars, diffVars, estVars>>

TestRankDifferenceA ==
    /\ fn = "test_rank_difference_a" /\ pc = "start"
    /\ IF rank_difference_raises(a, b)
       THEN pc' = "raised" /\ result' = result
       ELSE pc' = "returned" /\ result' = test_rank_difference_a(a, b)
    /\ UNCHANGED <<fn, fdrVars, diffVars, estVars>>

NextDiff == TestBootstrapDifference \/ TestRankDifferenceA
SpecDiff == InitDiff /\ [][NextDiff]_vars

(***************************************************************************)
(* Properties of the difference tests (checked under SpecDiff)             *)
(***************************************************************************)
Ra == Len(a.rows)
Rb == Len(b.rows)
\* the counts of the documented test: all Ra*Rb pairs
AllPairs == (1..Ra) \X (1..Rb)
S1(k) == Cardinality({i \in AllPairs : b.rows[i[2]][k] - a.rows[i[1]][k] >= 0})
S2(k) == Cardinality({i \in AllPairs : b.rows[i[2]][k] - a.rows[i[1]][k] <= 0})

\* C1: for a and b with the same trailing shape (Ra and Rb not necessarily
\* equal) test_bootstrap_difference returns at every coordinate k the value
\* min(s1[k], s2[k]) / (Ra*Rb) with s1 and s2 counted over all Ra*Rb pairs,
\* and so 0 where every b[j,k] is greater than every a[i,k].
C1_AllPairs ==
    (fn = "test_bootstrap_difference" /\ pc # "start" /\ a.trail = b.trail) =>
        /\ pc = "returned"
        /\ \A k \in 1..size(a) :
              /\ result.vals[k].num * (Ra * Rb) = Min2(S1(k), S2(k)) * result.vals[k].den
              /\ (\A i \in AllPairs : b.rows[i[2]][k] > a.rows[i[1]][k])
                    => result.vals[k].num = 0

\* C9: both difference tests end in an error, and return no p-value array,
\* whenever the trailing shapes of a and b disagree.
C9_ShapeMismatchRaises ==
    (fn \in {"test_bootstrap_difference", "test_rank_difference_a"}
        /\ pc # "start" /\ a.trail # b.trail) =>
        pc = "raised" /\ result = NoArray

\* what holds of the code: with Ra = Rb and equal trailing shapes the value is
\* the documented one
DiffEqualRepetitions ==
    (fn = "test_bootstrap_difference" /\ pc # "start" /\ a.trail = b.trail /\ Ra = Rb) =>
        /\ pc = "returned"
        /\ \A k \in 1..size(a) :
              result.vals[k].num * (Ra * Rb) = Min2(S1(k), S2(k)) * result.vals[k].den
RankMismatchRaises ==
    (fn = "test_rank_difference_a" /\ pc # "start" /\ a.trail # b.trail) => pc = "raised"

(***************************************************************************)
(* The estimators                                                          *)
(***************************************************************************)
\* measure_names is a str (names holds the one name) or a list of str
MeasureArgs ==
    {[str |-> TRUE, names |-> <<"DTF">>],
     [str |-> FALSE, names |-> <<"PDC">>],
     [str |-> FALSE, names |-> <<"DTF", "PDC">>]}
Range(f) == {f[x] : x \in DOMAIN f}

\* leaveout is the number n/d: an integer (d = 1) or a fraction of the trials
Leaveouts == {[n |-> k, d |-> 1] : k \in (-1)..(MaxTrials + 1)} \cup {[n |-> 1, d |-> 2]}
None == -1
NumSamples == {None, 1}
\* the phase draws of randomize_phase
Phases == {1, 2}

\* int(x / y) of Python: the quotient truncated towards zero
int_div(x, y) ==
    LET ax == IF x < 0 THEN -x ELSE x
        ay == IF y < 0 THEN -y ELSE y
        q == ax \div ay
    IN  IF (x < 0) # (y < 0) THEN -q ELSE q

\* range(t) as the sequence 0, 1, ..., t-1
range(n) == [x \in 1..n |-> x - 1]

\* an estimate is kept as the measure computed and the model it was computed from
connectivity(measures, model) ==
    IF measures.str
    THEN [measure |-> measures.names[1], model |-> model]
    ELSE [m \in Range(measures.names) |-> [measure |-> m, model |-> model]]

convert_output_drop(out, measures) ==
    IF measures.str
    THEN out
    ELSE [m \in Range(measures.names) |-> [x \in 1..(Len(out) - 1) |-> out[x][m]]]
\* lines 259-265
convert_output_(out, measures) ==
    IF measures.str
    THEN out
    ELSE [m \in Range(measures.names) |-> [x \in 1..Len(out) |-> out[x][m]]]

jackknife_mask_short(tt, bb, lo) ==
    SelectSeq(range(tt), LAMBDA i : i < bb * lo \/ i > (bb + 1) * lo)
\* mask = [i for i in range(t) if i < b*leaveout or i >= (b+1)*leaveout]
jackknife_mask(tt, bb, lo) ==
    SelectSeq(range(tt), LAMBDA i : i < bb * lo \/ i >= (bb + 1) * lo)

InitEst ==
    /\ pc = "start" /\ result = NoArray
    /\ fn \in {"surrogate_connectivity", "jackknife_connectivity", "bootstrap_connectivity"}
    /\ measure_names \in MeasureArgs
    /\ t \in 1..(IF fn = "jackknife_connectivity" THEN MaxTrials ELSE MaxDraw)
    /\ repeats \in IF fn = "jackknife_connectivity" THEN {0} ELSE (-1)..MaxRepeats
    /\ leaveout \in IF fn = "jackknife_connectivity" THEN Leaveouts ELSE {[n |-> 1, d |-> 1]}
    /\ num_samples \in IF fn = "bootstrap_connectivity" THEN NumSamples ELSE {None}
    /\ num_blocks = 0 /\ r = 0 /\ output = <<>> /\ var = Unfitted /\ fits = <<>>
    /\ FdrIdle /\ DiffIdle

\* var.fit(d); c = connectivity(measure_names, var.coef, var.rescov, nfft); output.append(c)
FitAndAppend(d) ==
    /\ var' = d
    /\ fits' = Append(fits, d)
    /\ output' = Append(output, connectivity(measure_names, var'))
    /\ r' = r + 1

\* surrogate_connectivity, line 44
SurrogateStart ==
    /\ fn = "surrogate_connectivity" /\ pc = "start"
    /\ output' = <<>> /\ r' = 0 /\ pc' = "loop"
    /\ UNCHANGED <<fn, result, measure_names, t, repeats, leaveout, num_samples,
                   num_blocks, var, fits, fdrVars, diffVars>>

\* surrogate_connectivity, lines 45-49: one iteration of the loop
SurrogateIter ==
    /\ fn = "surrogate_connectivity" /\ pc = "loop" /\ r < repeats
    /\ \E ph \in Phases : FitAndAppend([trials |-> range(t), phase |-> ph])
    /\ UNCHANGED <<pc, fn, result, measure_names, t, repeats, leaveout, num_samples,
                   num_blocks, fdrVars, diffVars>>

\* surrogate_connectivity, line 50
SurrogateReturn ==
    /\ fn = "surrogate_connectivity" /\ pc = "loop" /\ r >= repeats
    /\ result' = convert_output_(output, measure_names)
    /\ pc' = "returned"
    /\ UNCHANGED <<fn, estVars, fdrVars, diffVars>>

\* jackknife_connectivity, lines 83-91
JackknifeStart ==
    /\ fn = "jackknife_connectivity" /\ pc = "start"
    /\ LET lo == IF leaveout.n < leaveout.d
                 THEN int_div(leaveout.n * t, leaveout.d)
                 ELSE leaveout.n
       IN  /\ leaveout' = [n |-> lo, d |-> 1]
           /\ IF lo = 0
              THEN pc' = "raised" /\ num_blocks' = num_blocks
              ELSE pc' = "loop" /\ num_blocks' = int_div(t, lo)
    /\ output' = <<>> /\ r' = 0
    /\ UNCHANGED <<fn, result, measure_names, t, repeats, num_samples, var, fits,
                   fdrVars, diffVars>>

\* jackknife_connectivity, lines 92-97: one iteration of the loop, b = r
JackknifeIter ==
    /\ fn = "jackknife_connectivity" /\ pc = "loop" /\ r < num_blocks
    /\ FitAndAppend([trials |-> jackknife_mask(t, r, leaveout.n), phase |-> 0])
    /\ UNCHANGED <<pc, fn, result, measure_names, t, repeats, leaveout, num_samples,
                   num_blocks, fdrVars, diffVars>>

\* jackknife_connectivity, line 98
JackknifeReturn ==
    /\ fn = "jackknife_connectivity" /\ pc = "loop" /\ r >= num_blocks
    /\ result' = convert_output_(output, measure_names)
    /\ pc' = "returned"
    /\ UNCHANGED <<fn, estVars, fdrVars, diffVars>>

\* bootstrap_connectivity, lines 129-135
BootstrapStart ==
    /\ fn = "bootstrap_connectivity" /\ pc = "start"
    /\ num_samples' = IF num_samples = None THEN t ELSE num_samples
    /\ output' = <<>> /\ r' = 0 /\ pc' = "loop"
    /\ UNCHANGED <<fn, result, measure_names, t, repeats, leaveout, num_blocks, var, fits,
                   fdrVars, diffVars>>

\* bootstrap_connectivity, lines 136-141: one iteration of the loop
BootstrapIter ==
    /\ fn = "bootstrap_connectivity" /\ pc = "loop" /\ r < repeats
    /\ \E mask \in [1..num_samples -> 0..(t - 1)] :
          FitAndAppend([trials |-> mask, phase |-> 0])
    /\ UNCHANGED <<pc, fn, result, measure_names, t, repeats, leaveout, num_samples,
                   num_blocks, fdrVars, diffVars>>

\* bootstrap_connectivity, line 142
BootstrapReturn ==
    /\ fn = "bootstrap_connectivity" /\ pc = "loop" /\ r >= repeats
    /\ result' = convert_output_(output, measure_names)
    /\ pc' = "returned"
    /\ UNCHANGED <<fn, estVars, fdrVars, diffVars>>

NextEst ==
    \/ SurrogateStart \/ SurrogateIter \/ SurrogateReturn
    \/ JackknifeStart \/ JackknifeIter \/ JackknifeReturn
    \/ BootstrapStart \/ BootstrapIter \/ BootstrapReturn
SpecEst == InitEst /\ [][NextEst]_vars

(***************************************************************************)
(* Properties of the estimators (checked under SpecEst)                    *)
(***************************************************************************)
\* the leading dimension of a returned ensemble is n, and (for a list of
\* measure names) the mapping has exactly the requested keys
LeadingDimension(n) ==
    IF measure_names.str
    THEN Len(result) = n
    ELSE /\ DOMAIN result = Range(measure_names.names)
         /\ \A m \in DOMAIN result : Len(result[m]) = n
\* the x-th estimate of the returned ensemble was computed from the x-th refit
InIterationOrder ==
    IF measure_names.str
    THEN \A x \in 1..Len(fits) :
            result[x] = [measure |-> measure_names.names[1], model |-> fits[x]]
    ELSE \A m \in DOMAIN result : \A x \in 1..Len(fits) :
            result[m][x] = [measure |-> m, model |-> fits[x]]

JackknifeIntegerLeaveout ==
    fn = "jackknife_connectivity" /\ leaveout.d = 1 /\ leaveout.n >= 1
Excluded(x) == {i \in 0..(t - 1) : i \notin Range(fits[x].trials)}

C5_WitnessEmpty ==
    /\ JackknifeIntegerLeaveout /\ pc = "returned"
    /\ leaveout.n > t /\ fits = <<>>

\* C6: for every T and every leaveout in 1..T, every trial in [0, T) is
\* excluded from exactly one of the refits of jackknife_connectivity.
C6_EachTrialLeftOutOnce ==
    (JackknifeIntegerLeaveout /\ leaveout.n <= t /\ pc = "returned") =>
        \A i \in 0..(t - 1) :
            Cardinality({x \in 1..Len(fits) : i \in Excluded(x)}) = 1

\* what holds of the code: a trial is left out once if it lies in a full
\* block and never otherwise
JackknifeLeftOutOnceInBlocks ==
    (JackknifeIntegerLeaveout /\ pc = "returned") =>
        \A i \in 0..(t - 1) :
            Cardinality({x \in 1..Len(fits) : i \in Excluded(x)}) =
                IF i < (t \div leaveout.n) * leaveout.n THEN 1 ELSE 0

\* C7: for repeats >= 1 surrogate_connectivity and bootstrap_connectivity
\* refit exactly repeats times and return one estimate per repetition in
\* iteration order: a stacked array of leading dimension repeats for a single
\* measure name, a mapping with exactly the requested names as keys, each
\* value of leading dimension repeats, for a list of names.
C7_RepeatsEstimates ==
    (fn \in {"surrogate_connectivity", "bootstrap_connectivity"}
        /\ repeats >= 1 /\ pc = "returned") =>
        /\ Len(fits) = repeats
        /\ LeadingDimension(repeats)
        /\ InIterationOrder

C7_Witness ==
    /\ fn = "bootstrap_connectivity" /\ pc = "returned"
    /\ repeats = 2 /\ Len(measure_names.names) = 2
    /\ fits[1] # fits[2]

C7_WitnessSurrogate ==
    /\ fn = "surrogate_connectivity" /\ pc = "returned"
    /\ repeats = 2 /\ measure_names.str /\ Len(result) = 2

\* C8: invalid parameters end in an error raised before any refit, never in a
\* result: repeats < 1 (surrogate, bootstrap), leaveout <= 0 (jackknife),
\* alpha outside (0,1) (significance_fdr).
C8_InvalidParametersRaise ==
    /\ (fn \in {"surrogate_connectivity", "bootstrap_connectivity"} /\ repeats < 1)
            => (pc # "returned" /\ fits = <<>>)
    /\ (fn = "jackknife_connectivity" /\ leaveout.n <= 0)
            => (pc # "returned" /\ fits = <<>>)
    /\ (fn = "significance_fdr" /\ ~AlphaValid(alpha)) => pc # "returned"

====
